---- MODULE Spec2Model ----
(***************************************************************************)
(* Model of the certificate adoption scanner (tracker.go): the probe       *)
(* classifier (checkName), the aggregator (processResults), the worker     *)
(* pool, the progress task, the interrupt handler and the final report.    *)
(***************************************************************************)
EXTENDS Integers, Sequences, FiniteSets, TLC

\* ------------------------------------------------------------------ bounds
MaxWorkers == 2      \* values of the -scanners flag explored: 0..MaxWorkers
MaxCerts == 2        \* certificates the filter may accept
MaxNames == 2        \* subject names per certificate

\* ------------------------------------------------- probe inputs (the network)
\* What tls.DialWithDialer hands back to checkName: the error (its dynamic
\* type and the attributes the code inspects) or the connection state.
ErrTypes ==
    {"nil", "OpError", "UnknownAuthorityError", "HostnameError",
     "CertificateInvalidError", "other"}

InvalidReasons == {"Expired", "NotAuthorizedToSign", "OtherReason"}

AllProbes ==
    [err : ErrTypes,
     timeout : BOOLEAN, temporary : BOOLEAN,
     dnsErr : BOOLEAN, dnsTimeout : BOOLEAN, dnsTemporary : BOOLEAN,
     tlsText : BOOLEAN,
     reason : InvalidReasons,
     handshakeComplete : BOOLEAN, fpMatch : BOOLEAN,
     ocsp : BOOLEAN, scts : BOOLEAN]

\* A successful handshake.
Served(match, ocsp, scts) ==
    [err |-> "nil", timeout |-> FALSE, temporary |-> FALSE,
     dnsErr |-> FALSE, dnsTimeout |-> FALSE, dnsTemporary |-> FALSE,
     tlsText |-> FALSE, reason |-> "OtherReason",
     handshakeComplete |-> TRUE, fpMatch |-> match,
     ocsp |-> ocsp, scts |-> scts]

\* A failed dial.
Failed(type, timeout, tlsText, reason) ==
    [err |-> type, timeout |-> timeout, temporary |-> FALSE,
     dnsErr |-> FALSE, dnsTimeout |-> FALSE, dnsTemporary |-> FALSE,
     tlsText |-> tlsText, reason |-> reason,
     handshakeComplete |-> FALSE, fpMatch |-> FALSE,
     ocsp |-> FALSE, scts |-> FALSE]

\* The synthetic network of the scan: each host name answers every dial
\* in one fixed way.
Hosts ==
    {"used", "stapled", "scts", "othercert", "timeout", "refused", "alert",
     "unknownca", "mismatch", "expired", "selfsigned", "badusage"}

\* The two hosts the multi-certificate runs are built from.
CoreHosts == {"used", "refused"}

Dial(host) ==
    CASE host = "used"       -> Served(TRUE, FALSE, FALSE)
      [] host = "stapled"    -> Served(TRUE, TRUE, FALSE)
      [] host = "scts"       -> Served(TRUE, FALSE, TRUE)
      [] host = "othercert"  -> Served(FALSE, TRUE, TRUE)
      [] host = "timeout"    -> Failed("OpError", TRUE, FALSE, "OtherReason")
      [] host = "refused"    -> Failed("OpError", FALSE, FALSE, "OtherReason")
      [] host = "alert"      -> Failed("other", FALSE, TRUE, "OtherReason")
      [] host = "unknownca"  -> Failed("UnknownAuthorityError", FALSE, FALSE, "OtherReason")
      [] host = "mismatch"   -> Failed("HostnameError", FALSE, FALSE, "OtherReason")
      [] host = "expired"    -> Failed("CertificateInvalidError", FALSE, FALSE, "Expired")
      [] host = "selfsigned" -> Failed("CertificateInvalidError", FALSE, FALSE, "NotAuthorizedToSign")
      [] host = "badusage"   -> Failed("CertificateInvalidError", FALSE, FALSE, "OtherReason")

\* ------------------------------------------------------------- result type
ZeroResult ==
    [skipped |-> FALSE, hostAvailable |-> FALSE, tlsError |-> FALSE,
     usingMiscInvalidCert |-> FALSE, usingExpiredCert |-> FALSE,
     usingIncompleteChain |-> FALSE, usingWrongCert |-> FALSE,
     usingSelfSignedCert |-> FALSE, certUsed |-> FALSE,
     ocspStapled |-> FALSE, servesSCTs |-> FALSE]

\* Variant of checkName: the error's type is inspected before its text.
checkNameTypeFirst(p) ==
    IF p.err # "nil" THEN
        IF p.err = "OpError" THEN
            [ZeroResult EXCEPT !.skipped =
                (p.timeout \/ p.temporary)
                \/ (p.dnsErr /\ (p.dnsTimeout \/ p.dnsTemporary))]
        ELSE IF p.err = "UnknownAuthorityError" THEN
            [ZeroResult EXCEPT !.hostAvailable = TRUE, !.usingIncompleteChain = TRUE]
        ELSE IF p.err = "HostnameError" THEN
            [ZeroResult EXCEPT !.hostAvailable = TRUE, !.usingWrongCert = TRUE]
        ELSE IF p.err = "CertificateInvalidError" /\ p.reason = "Expired" THEN
            [ZeroResult EXCEPT !.hostAvailable = TRUE, !.usingExpiredCert = TRUE]
        ELSE IF p.err = "CertificateInvalidError" /\ p.reason = "NotAuthorizedToSign" THEN
            [ZeroResult EXCEPT !.hostAvailable = TRUE, !.usingSelfSignedCert = TRUE]
        ELSE IF p.tlsText THEN
            [ZeroResult EXCEPT !.hostAvailable = TRUE, !.tlsError = TRUE]
        ELSE
            [ZeroResult EXCEPT !.hostAvailable = TRUE, !.usingMiscInvalidCert = TRUE]
    ELSE IF ~p.handshakeComplete THEN
        [ZeroResult EXCEPT !.hostAvailable = TRUE]
    ELSE
        [ZeroResult EXCEPT !.hostAvailable = TRUE, !.certUsed = p.fpMatch,
                           !.ocspStapled = p.ocsp, !.servesSCTs = p.scts]

\* Variant of checkName: the TLS-text branch lacks its `return`, so the
\* error's type is inspected as well.
checkNameNoReturn(p) ==
    IF p.err # "nil" THEN
        IF p.err = "OpError" THEN
            [ZeroResult EXCEPT !.skipped =
                (p.timeout \/ p.temporary)
                \/ (p.dnsErr /\ (p.dnsTimeout \/ p.dnsTemporary))]
        ELSE LET r == [ZeroResult EXCEPT !.hostAvailable = TRUE,
                                         !.tlsError = p.tlsText]
             IN IF p.err = "UnknownAuthorityError" THEN
                    [r EXCEPT !.usingIncompleteChain = TRUE]
                ELSE IF p.err = "HostnameError" THEN
                    [r EXCEPT !.usingWrongCert = TRUE]
                ELSE IF p.err = "CertificateInvalidError" /\ p.reason = "Expired" THEN
                    [r EXCEPT !.usingExpiredCert = TRUE]
                ELSE IF p.err = "CertificateInvalidError"
                        /\ p.reason = "NotAuthorizedToSign" THEN
                    [r EXCEPT !.usingSelfSignedCert = TRUE]
                ELSE
                    [r EXCEPT !.usingMiscInvalidCert = TRUE]
    ELSE IF ~p.handshakeComplete THEN
        [ZeroResult EXCEPT !.hostAvailable = TRUE]
    ELSE
        [ZeroResult EXCEPT !.hostAvailable = TRUE, !.certUsed = p.fpMatch,
                           !.ocspStapled = p.ocsp, !.servesSCTs = p.scts]

\* tester.checkName, without the deferred processedNames increment (which
\* the CheckName action applies).
checkName(p) ==
    IF p.err # "nil" THEN
        IF p.err = "OpError" THEN
            [ZeroResult EXCEPT !.skipped =
                (p.timeout \/ p.temporary)
                \/ (p.dnsErr /\ (p.dnsTimeout \/ p.dnsTemporary))]
        ELSE IF p.tlsText THEN
            [ZeroResult EXCEPT !.hostAvailable = TRUE, !.tlsError = TRUE]
        ELSE IF p.err = "UnknownAuthorityError" THEN
            [ZeroResult EXCEPT !.hostAvailable = TRUE, !.usingIncompleteChain = TRUE]
        ELSE IF p.err = "HostnameError" THEN
            [ZeroResult EXCEPT !.hostAvailable = TRUE, !.usingWrongCert = TRUE]
        ELSE IF p.err = "CertificateInvalidError" /\ p.reason = "Expired" THEN
            [ZeroResult EXCEPT !.hostAvailable = TRUE, !.usingExpiredCert = TRUE]
        ELSE IF p.err = "CertificateInvalidError" /\ p.reason = "NotAuthorizedToSign" THEN
            [ZeroResult EXCEPT !.hostAvailable = TRUE, !.usingSelfSignedCert = TRUE]
        ELSE
            [ZeroResult EXCEPT !.hostAvailable = TRUE, !.usingMiscInvalidCert = TRUE]
    ELSE IF ~p.handshakeComplete THEN
        [ZeroResult EXCEPT !.hostAvailable = TRUE]
    ELSE
        [ZeroResult EXCEPT !.hostAvailable = TRUE, !.certUsed = p.fpMatch,
                           !.ocspStapled = p.ocsp, !.servesSCTs = p.scts]

\* ------------------------------------------------------ collectedResults
ZeroResults ==
    [NamesSkipped |-> 0, NamesUnavailable |-> 0, NamesTLSError |-> 0,
     NamesUsingMiscInvalidCert |-> 0, NamesUsingExpiredCert |-> 0,
     NamesUsingIncompleteChain |-> 0, NamesUsingWrongCert |-> 0,
     NamesUsingSelfSignedCert |-> 0, NamesWithOCSPStapled |-> 0,
     NamesServingSCTs |-> 0, NamesCertNotUsed |-> 0,
     CertsUnused |-> 0, CertsPartiallyUsed |-> 0, CertsTotallyUsed |-> 0]

\* Variant of the loop body: a skipped name is taken as used.
nameCounterSkipIsUsed(r) ==
    IF r.skipped THEN "used"
    ELSE IF ~r.hostAvailable THEN "NamesUnavailable"
    ELSE IF r.tlsError THEN "NamesTLSError"
    ELSE IF r.usingMiscInvalidCert THEN "NamesUsingMiscInvalidCert"
    ELSE IF r.usingExpiredCert THEN "NamesUsingExpiredCert"
    ELSE IF r.usingIncompleteChain THEN "NamesUsingIncompleteChain"
    ELSE IF r.usingWrongCert THEN "NamesUsingWrongCert"
    ELSE IF r.usingSelfSignedCert THEN "NamesUsingSelfSignedCert"
    ELSE IF ~r.certUsed THEN "NamesCertNotUsed"
    ELSE "used"

\* One iteration of the loop of processResults: the counter the result is
\* filed under, or "used" when the loop reaches used++.
nameCounter(r) ==
    IF r.skipped THEN "NamesSkipped"
    ELSE IF ~r.hostAvailable THEN "NamesUnavailable"
    ELSE IF r.tlsError THEN "NamesTLSError"
    ELSE IF r.usingMiscInvalidCert THEN "NamesUsingMiscInvalidCert"
    ELSE IF r.usingExpiredCert THEN "NamesUsingExpiredCert"
    ELSE IF r.usingIncompleteChain THEN "NamesUsingIncompleteChain"
    ELSE IF r.usingWrongCert THEN "NamesUsingWrongCert"
    ELSE IF r.usingSelfSignedCert THEN "NamesUsingSelfSignedCert"
    ELSE IF ~r.certUsed THEN "NamesCertNotUsed"
    ELSE "used"

Bump(c, field) == [c EXCEPT ![field] = @ + 1]

\* Variant of the loop: the skipped branch lacks its `continue`, so a
\* skipped name falls through to the hostAvailable test.
RECURSIVE tallyNoContinue(_, _, _)
tallyNoContinue(c, rs, used) ==
    IF rs = <<>> THEN [c |-> c, used |-> used]
    ELSE LET r == Head(rs)
             k == nameCounter([r EXCEPT !.skipped = FALSE])
             c0 == IF r.skipped THEN Bump(c, "NamesSkipped") ELSE c
         IN IF k # "used" THEN tallyNoContinue(Bump(c0, k), Tail(rs), used)
            ELSE LET c1 == IF r.ocspStapled THEN Bump(c0, "NamesWithOCSPStapled") ELSE c0
                     c2 == IF r.servesSCTs THEN Bump(c1, "NamesServingSCTs") ELSE c1
                 IN tallyNoContinue(c2, Tail(rs), used + 1)

\* Variant of the loop: the stapling and SCT tests come before the certUsed
\* test.
RECURSIVE tallyStaplingFirst(_, _, _)
tallyStaplingFirst(c, rs, used) ==
    IF rs = <<>> THEN [c |-> c, used |-> used]
    ELSE LET r == Head(rs)
             k == nameCounter(r)
         IN IF k \notin {"NamesCertNotUsed", "used"}
            THEN tallyStaplingFirst(Bump(c, k), Tail(rs), used)
            ELSE LET c1 == IF r.ocspStapled THEN Bump(c, "NamesWithOCSPStapled") ELSE c
                     c2 == IF r.servesSCTs THEN Bump(c1, "NamesServingSCTs") ELSE c1
                 IN IF k = "used"
                    THEN tallyStaplingFirst(c2, Tail(rs), used + 1)
                    ELSE tallyStaplingFirst(Bump(c2, k), Tail(rs), used)

\* The loop of processResults over the results of one certificate: the
\* counters and the local `used` after it.
RECURSIVE tally(_, _, _)
tally(c, rs, used) ==
    IF rs = <<>> THEN [c |-> c, used |-> used]
    ELSE LET r == Head(rs)
             k == nameCounter(r)
         IN IF k # "used" THEN tally(Bump(c, k), Tail(rs), used)
            ELSE LET c1 == IF r.ocspStapled THEN Bump(c, "NamesWithOCSPStapled") ELSE c
                     c2 == IF r.servesSCTs THEN Bump(c1, "NamesServingSCTs") ELSE c1
                 IN tally(c2, Tail(rs), used + 1)

\* Variant of the bucket choice: the partial branch lacks `used > 0`.
certBucketNoPositive(used, n) ==
    IF used = n THEN "CertsTotallyUsed"
    ELSE IF used < n THEN "CertsPartiallyUsed"
    ELSE IF used = 0 THEN "CertsUnused"
    ELSE "none"

\* The summary bucket chosen after the loop; "none" when no branch is taken.
certBucket(used, n) ==
    IF used = n THEN "CertsTotallyUsed"
    ELSE IF used < n /\ used > 0 THEN "CertsPartiallyUsed"
    ELSE IF used = 0 THEN "CertsUnused"
    ELSE "none"

\* Variant of processResults: the three bucket tests are separate ifs.
processResultsSeparateIfs(c, rs) ==
    LET t == tally(c, rs, 0)
        n == Len(rs)
        c1 == IF t.used = n THEN Bump(t.c, "CertsTotallyUsed") ELSE t.c
        c2 == IF t.used < n /\ t.used > 0 THEN Bump(c1, "CertsPartiallyUsed") ELSE c1
    IN IF t.used = 0 THEN Bump(c2, "CertsUnused") ELSE c2

\* tester.processResults: the counters after recording one certificate.
processResults(c, rs) ==
    LET t == tally(c, rs, 0)
        b == certBucket(t.used, Len(rs))
    IN IF b = "none" THEN t.c ELSE Bump(t.c, b)

\* ------------------------------------------------------------------ report
\* A float64: its class and, when finite, its value in hundredths (the
\* report prints %.2f).
Float(class, hundredths) == [class |-> class, hundredths |-> hundredths]

\* percent(n, t) = (float64(n) / float64(t)) * 100.0.  IEEE division by zero
\* does not trap: 0/0 is NaN and n/0 is an infinity.
percent(n, t) ==
    IF t = 0
    THEN (IF n = 0 THEN Float("NaN", 0)
          ELSE IF n > 0 THEN Float("+Inf", 0) ELSE Float("-Inf", 0))
    ELSE Float("finite", (n * 10000) \div t)

NameCounters ==
    {"NamesSkipped", "NamesUnavailable", "NamesTLSError",
     "NamesUsingIncompleteChain", "NamesUsingExpiredCert",
     "NamesUsingSelfSignedCert", "NamesUsingWrongCert",
     "NamesUsingMiscInvalidCert", "NamesCertNotUsed",
     "NamesWithOCSPStapled", "NamesServingSCTs"}

CertCounters == {"CertsUnused", "CertsPartiallyUsed", "CertsTotallyUsed"}

\* ------------------------------------------------------------------- state
VARIABLES
    workers, debug, dontPrintProgress,  \* tester fields set from the flags
    totalCerts, processedCerts,         \* tester progress fields
    totalNames, processedNames,
    results,                            \* tester.results (collectedResults)
    queued,                             \* the certificates the filter enqueued, in order
    entries,                            \* t.entries: positions in `queued` still in the channel
    mainpc,                             \* main goroutine
    wg,                                 \* the WaitGroup counter
    wpc, te, res,                       \* per worker: position, loop variable, checkCert's results
    stopWorkers,                        \* per worker: items in its stop channel (cap 1)
    stopProg,                           \* items in stopProg (cap 1)
    ppc,                                \* printProgress goroutine
    sigChan,                            \* items in sigChan (cap 1)
    hpc, hi,                            \* interrupt goroutine and its loop index
    report,                             \* the reports printStats has written
    stderr,                             \* the errors main has written to os.Stderr
    aggregating,                        \* earlier variant: the `go t.processResults` goroutines not yet run
    probe                               \* the dial result under classification

flagVars == <<workers, debug, dontPrintProgress>>
totalVars == <<totalCerts, totalNames, queued>>
countVars == <<processedCerts, processedNames, results>>
workerVars == <<wpc, te, res>>
handlerVars == <<sigChan, hpc, hi>>

vars == <<workers, debug, dontPrintProgress, totalCerts, processedCerts,
          totalNames, processedNames, results, queued, entries, mainpc, wg,
          wpc, te, res, stopWorkers, stopProg, ppc, sigChan, hpc, hi, report,
          stderr, aggregating, probe>>

SeqsUpTo(S, n) == UNION {[1..k -> S] : k \in 0..n}

\* A certificate is its DNSNames; the names are hosts of the synthetic network.
Certs(hosts) == SeqsUpTo(hosts, MaxNames)

Min(a, b) == IF a < b THEN a ELSE b

\* The filtered contents of a cache file of n entries: every list of up to
\* n certificates over the core hosts, and every single certificate over
\* all hosts.
Filtered(n) ==
    SeqsUpTo(Certs(CoreHosts), n) \cup SeqsUpTo(Certs(Hosts), Min(n, 1))

\* The worker goroutines begin has started.
Workers == DOMAIN wpc

\* The process is alive: main has neither returned nor called os.Exit.
Alive == mainpc \notin {"done", "exit1"}

\* main, up to the call of loadAndUpdate: the tester literal built from the flags.
Init ==
    /\ workers \in 0..MaxWorkers
    /\ debug \in BOOLEAN
    /\ dontPrintProgress \in BOOLEAN
    /\ totalCerts = 0 /\ processedCerts = 0
    /\ totalNames = 0 /\ processedNames = 0
    /\ results = ZeroResults
    /\ queued = <<>> /\ entries = <<>>
    /\ mainpc = "loadAndUpdate"
    /\ wg = 0
    /\ wpc = <<>> /\ te = <<>> /\ res = <<>>
    /\ stopWorkers = <<>>
    /\ stopProg = 0
    /\ ppc = "off"
    /\ sigChan = 0
    /\ hpc = "off" /\ hi = 0
    /\ report = <<>>
    /\ stderr = <<>>
    /\ aggregating = {}
    /\ probe = "none"

\* Variant of the totalNames sum: one per certificate.
SumNamesPerCert(cs) == Len(cs)

RECURSIVE SumNames(_)
SumNames(cs) == IF cs = <<>> THEN 0 ELSE Len(Head(cs)) + SumNames(Tail(cs))

LoadErrors == {"NewLog", "OpenFile", "GetSignedTreeHead", "Count", "DownloadRange"}

\* Variant of loadAndUpdate: the test of an empty filtered list is missing.
LoadAndUpdateNoEmptyCheck ==
    /\ mainpc = "loadAndUpdate"
    /\ \E err \in LoadErrors \cup {"nil"}, count \in 0..MaxCerts,
          size \in 0..MaxCerts, dontUpdate \in BOOLEAN :
         LET download == ~dontUpdate /\ count < size
             fileLen == IF download THEN size ELSE count
         IN \E acc \in Filtered(fileLen) :
              IF err # "nil" /\ (err = "DownloadRange" => download)
              THEN /\ mainpc' = "exit1"
                   /\ stderr' = Append(stderr, err)
                   /\ UNCHANGED <<totalVars, entries>>
              ELSE IF Len(acc) > size
              THEN /\ mainpc' = "mapBlocked"
                   /\ queued' = SubSeq(acc, 1, size)
                   /\ entries' = [i \in 1..size |-> i]
                   /\ totalNames' = SumNames(SubSeq(acc, 1, size + 1))
                   /\ UNCHANGED <<totalCerts, stderr>>
              ELSE /\ mainpc' = "begin"
                   /\ queued' = acc
                   /\ entries' = [i \in 1..Len(acc) |-> i]
                   /\ totalNames' = SumNames(acc)
                   /\ totalCerts' = Len(acc)
                   /\ UNCHANGED stderr
    /\ UNCHANGED <<flagVars, countVars, wg, workerVars, stopWorkers, stopProg,
                   ppc, handlerVars, report, aggregating, probe>>

\* tester.loadAndUpdate with filterOnIssuer as the map function, and main's
\* handling of its error: the error is written to os.Stderr and the process
\* exits with code 1.  Inputs: the step that fails (if any), the local
\* entry count, the remote tree size, the dontUpdateCache flag and the
\* certificates of the cache file that pass the filter, in file order.
LoadAndUpdate ==
    /\ mainpc = "loadAndUpdate"
    /\ \E err \in LoadErrors \cup {"nil"}, count \in 0..MaxCerts,
          size \in 0..MaxCerts, dontUpdate \in BOOLEAN :
         LET download == ~dontUpdate /\ count < size
             fileLen == IF download THEN size ELSE count
         IN \E acc \in Filtered(fileLen) :
              IF err # "nil" /\ (err = "DownloadRange" => download)
              THEN /\ mainpc' = "exit1"
                   /\ stderr' = Append(stderr, err)
                   /\ UNCHANGED <<totalVars, entries>>
              ELSE IF Len(acc) > size
              THEN \* the send at t.entries <- cert blocks: the channel is full
                   /\ mainpc' = "mapBlocked"
                   /\ queued' = SubSeq(acc, 1, size)
                   /\ entries' = [i \in 1..size |-> i]
                   /\ totalNames' = SumNames(SubSeq(acc, 1, size + 1))
                   /\ UNCHANGED <<totalCerts, stderr>>
              ELSE IF Len(acc) = 0
              THEN /\ mainpc' = "exit1"
                   /\ stderr' = Append(stderr, "EmptyFiltered")
                   /\ UNCHANGED <<totalVars, entries>>
              ELSE /\ mainpc' = "begin"
                   /\ queued' = acc
                   /\ entries' = [i \in 1..Len(acc) |-> i]
                   /\ totalNames' = SumNames(acc)
                   /\ totalCerts' = Len(acc)
                   /\ UNCHANGED stderr
    /\ UNCHANGED <<flagVars, countVars, wg, workerVars, stopWorkers, stopProg,
                   ppc, handlerVars, report, aggregating, probe>>

\* tester.begin up to wg.Wait(): the progress task, the workers and the
\* interrupt goroutine are started.
Begin ==
    /\ mainpc = "begin"
    /\ mainpc' = "wait"
    /\ stopProg' = 0
    /\ ppc' = IF ~debug /\ ~dontPrintProgress THEN "select" ELSE "off"
    /\ wg' = workers
    /\ wpc' = [w \in 1..workers |-> "range"]
    /\ te' = [w \in 1..workers |-> 0]
    /\ res' = [w \in 1..workers |-> <<>>]
    /\ stopWorkers' = [w \in 1..workers |-> 0]
    /\ sigChan' = 0
    /\ hpc' = "wait" /\ hi' = 0
    /\ UNCHANGED <<flagVars, totalVars, countVars, entries, report, stderr, aggregating, probe>>

\* Variant of the wait: main goes on once the queue is empty.
WaitForEmptyQueue ==
    /\ mainpc = "wait"
    /\ entries = <<>>
    /\ mainpc' = "stopProg"
    /\ UNCHANGED <<flagVars, totalVars, countVars, entries, wg, workerVars,
                   stopWorkers, stopProg, ppc, handlerVars, report, stderr, aggregating, probe>>

\* wg.Wait() returns.
Wait ==
    /\ mainpc = "wait"
    /\ wg = 0
    /\ mainpc' = "stopProg"
    /\ UNCHANGED <<flagVars, totalVars, countVars, entries, wg, workerVars,
                   stopWorkers, stopProg, ppc, handlerVars, report, stderr, aggregating, probe>>

\* stopProg <- true in begin, after the wait; blocks while the buffer is full.
MainStopProg ==
    /\ mainpc = "stopProg"
    /\ stopProg = 0
    /\ stopProg' = 1
    /\ mainpc' = "printStats"
    /\ UNCHANGED <<flagVars, totalVars, countVars, entries, wg, workerVars,
                   stopWorkers, ppc, handlerVars, report, stderr, aggregating, probe>>

\* tester.printStats, then main returns.
PrintStats ==
    /\ mainpc = "printStats"
    /\ report' = Append(report,
         [processedCerts |-> processedCerts,
          processedNames |-> processedNames,
          count |-> results,
          pct |-> [k \in NameCounters \cup CertCounters |->
                     IF k \in NameCounters
                     THEN percent(results[k], processedNames)
                     ELSE percent(results[k], processedCerts)]])
    /\ mainpc' = "done"
    /\ UNCHANGED <<flagVars, totalVars, countVars, entries, wg, workerVars,
                   stopWorkers, stopProg, ppc, handlerVars, stderr, aggregating, probe>>

\* ----------------------------------------------------------------- workers
\* Variant: the stop channel is also polled between the names of a certificate.
StopCheckPcsEveryName == {"select", "checkCert"}

\* Where a worker looks at its stop channel: the select inside the range
\* loop, reached once per dequeued certificate.
StopCheckPcs == {"select"}

\* Variant of the range loop: a worker leaves the loop after its first
\* certificate.
WorkerRangeOnce(w) ==
    /\ Alive
    /\ wpc[w] = "range"
    /\ IF entries # <<>> /\ te[w] = 0
       THEN /\ te' = [te EXCEPT ![w] = Head(entries)]
            /\ entries' = Tail(entries)
            /\ wpc' = [wpc EXCEPT ![w] = "select"]
            /\ UNCHANGED wg
       ELSE /\ wpc' = [wpc EXCEPT ![w] = "drained"]
            /\ wg' = wg - 1
            /\ UNCHANGED <<te, entries>>
    /\ UNCHANGED <<flagVars, totalVars, countVars, mainpc, res, stopWorkers,
                   stopProg, ppc, handlerVars, report, stderr, aggregating, probe>>

\* for te := range t.entries: the next certificate, or the end of the loop
\* (the channel is closed and empty) and the deferred wg.Done().
WorkerRange(w) ==
    /\ Alive
    /\ wpc[w] = "range"
    /\ IF entries # <<>>
       THEN /\ te' = [te EXCEPT ![w] = Head(entries)]
            /\ entries' = Tail(entries)
            /\ wpc' = [wpc EXCEPT ![w] = "select"]
            /\ UNCHANGED wg
       ELSE /\ wpc' = [wpc EXCEPT ![w] = "drained"]
            /\ wg' = wg - 1
            /\ UNCHANGED <<te, entries>>
    /\ UNCHANGED <<flagVars, totalVars, countVars, mainpc, res, stopWorkers,
                   stopProg, ppc, handlerVars, report, stderr, aggregating, probe>>

\* Variant of the stop case: the certificate just dequeued is put back.
WorkerStopRequeue(w) ==
    /\ Alive
    /\ wpc[w] \in StopCheckPcs
    /\ stopWorkers[w] > 0
    /\ stopWorkers' = [stopWorkers EXCEPT ![w] = @ - 1]
    /\ wpc' = [wpc EXCEPT ![w] = "stopped"]
    /\ wg' = wg - 1
    /\ entries' = Append(entries, te[w])
    /\ UNCHANGED <<flagVars, totalVars, countVars, mainpc, te, res,
                   stopProg, ppc, handlerVars, report, stderr, aggregating, probe>>

\* Variant of the stop case: the certificate just dequeued is counted as
\* processed.
WorkerStopCounts(w) ==
    /\ Alive
    /\ wpc[w] \in StopCheckPcs
    /\ stopWorkers[w] > 0
    /\ stopWorkers' = [stopWorkers EXCEPT ![w] = @ - 1]
    /\ wpc' = [wpc EXCEPT ![w] = "stopped"]
    /\ wg' = wg - 1
    /\ processedCerts' = processedCerts + 1
    /\ UNCHANGED <<flagVars, totalVars, processedNames, results, entries,
                   mainpc, te, res, stopProg, ppc, handlerVars, report, stderr,
                   aggregating, probe>>

\* Variant of the stop case: the case ends with break, which leaves the
\* select and not the range loop.
WorkerStopBreak(w) ==
    /\ Alive
    /\ wpc[w] \in StopCheckPcs
    /\ stopWorkers[w] > 0
    /\ stopWorkers' = [stopWorkers EXCEPT ![w] = @ - 1]
    /\ wpc' = [wpc EXCEPT ![w] = "range"]
    /\ UNCHANGED <<flagVars, totalVars, countVars, entries, mainpc, wg, te, res,
                   stopProg, ppc, handlerVars, report, stderr, aggregating, probe>>

\* case <-stop: return (and the deferred wg.Done()).
WorkerStop(w) ==
    /\ Alive
    /\ wpc[w] \in StopCheckPcs
    /\ stopWorkers[w] > 0
    /\ stopWorkers' = [stopWorkers EXCEPT ![w] = @ - 1]
    /\ wpc' = [wpc EXCEPT ![w] = "stopped"]
    /\ wg' = wg - 1
    /\ UNCHANGED <<flagVars, totalVars, countVars, entries, mainpc, te, res,
                   stopProg, ppc, handlerVars, report, stderr, aggregating, probe>>

\* Variant of the select: the default case is taken although the stop
\* channel holds a flag.
WorkerDefaultIgnoresStop(w) ==
    /\ Alive
    /\ wpc[w] = "select"
    /\ wpc' = [wpc EXCEPT ![w] = "checkCert"]
    /\ res' = [res EXCEPT ![w] = <<>>]
    /\ UNCHANGED <<flagVars, totalVars, countVars, entries, mainpc, wg, te,
                   stopWorkers, stopProg, ppc, handlerVars, report, stderr, aggregating, probe>>

\* Variant of the entry of checkCert: the results slice of the previous
\* certificate is reused.
WorkerDefaultReuse(w) ==
    /\ Alive
    /\ wpc[w] = "select"
    /\ stopWorkers[w] = 0
    /\ wpc' = [wpc EXCEPT ![w] = "checkCert"]
    /\ UNCHANGED <<flagVars, totalVars, countVars, entries, mainpc, wg, te, res,
                   stopWorkers, stopProg, ppc, handlerVars, report, stderr, aggregating, probe>>

\* default: t.checkCert(te) is entered; results is nil.
WorkerDefault(w) ==
    /\ Alive
    /\ wpc[w] = "select"
    /\ stopWorkers[w] = 0
    /\ wpc' = [wpc EXCEPT ![w] = "checkCert"]
    /\ res' = [res EXCEPT ![w] = <<>>]
    /\ UNCHANGED <<flagVars, totalVars, countVars, entries, mainpc, wg, te,
                   stopWorkers, stopProg, ppc, handlerVars, report, stderr, aggregating, probe>>

\* Variant of the name loop: checkName lacks its deferred processedNames
\* increment.
CheckNameNoCount(w) ==
    /\ Alive
    /\ wpc[w] = "checkCert"
    /\ Len(res[w]) < Len(queued[te[w]])
    /\ LET name == queued[te[w]][Len(res[w]) + 1]
       IN res' = [res EXCEPT ![w] = Append(@, checkName(Dial(name)))]
    /\ UNCHANGED <<flagVars, totalVars, countVars, entries,
                   mainpc, wg, wpc, te, stopWorkers, stopProg, ppc,
                   handlerVars, report, stderr, aggregating, probe>>

\* Variant of the name loop: the names still to probe are all dialled at
\* once.
CheckNameAll(w) ==
    /\ Alive
    /\ wpc[w] = "checkCert"
    /\ Len(res[w]) < Len(queued[te[w]])
    /\ LET cert == queued[te[w]]
       IN /\ res' = [res EXCEPT ![w] =
                       [i \in 1..Len(cert) |-> checkName(Dial(cert[i]))]]
          /\ processedNames' = processedNames + Len(cert) - Len(res[w])
    /\ UNCHANGED <<flagVars, totalVars, processedCerts, results, entries,
                   mainpc, wg, wpc, te, stopWorkers, stopProg, ppc,
                   handlerVars, report, stderr, aggregating, probe>>

\* Variant of the name loop: each result is recorded as soon as it is known.
CheckNameRecordsEach(w) ==
    /\ Alive
    /\ wpc[w] = "checkCert"
    /\ Len(res[w]) < Len(queued[te[w]])
    /\ LET name == queued[te[w]][Len(res[w]) + 1]
           r == checkName(Dial(name))
       IN /\ res' = [res EXCEPT ![w] = Append(@, r)]
          /\ results' = tally(results, <<r>>, 0).c
    /\ processedNames' = processedNames + 1
    /\ UNCHANGED <<flagVars, totalVars, processedCerts, entries,
                   mainpc, wg, wpc, te, stopWorkers, stopProg, ppc,
                   handlerVars, report, stderr, aggregating, probe>>

\* One iteration of the loop of checkCert: t.checkName on the next name,
\* with its deferred processedNames increment.
CheckName(w) ==
    /\ Alive
    /\ wpc[w] = "checkCert"
    /\ Len(res[w]) < Len(queued[te[w]])
    /\ LET name == queued[te[w]][Len(res[w]) + 1]
       IN res' = [res EXCEPT ![w] = Append(@, checkName(Dial(name)))]
    /\ processedNames' = processedNames + 1
    /\ UNCHANGED <<flagVars, totalVars, processedCerts, results, entries,
                   mainpc, wg, wpc, te, stopWorkers, stopProg, ppc,
                   handlerVars, report, stderr, aggregating, probe>>

\* t.processResults(results) at the end of checkCert.
ProcessResults(w) ==
    /\ Alive
    /\ wpc[w] = "checkCert"
    /\ Len(res[w]) = Len(queued[te[w]])
    /\ results' = processResults(results, res[w])
    /\ wpc' = [wpc EXCEPT ![w] = "deferred"]
    /\ UNCHANGED <<flagVars, totalVars, processedCerts, processedNames,
                   entries, mainpc, wg, te, res, stopWorkers, stopProg, ppc,
                   handlerVars, report, stderr, aggregating, probe>>

\* checkCert returns: the deferred processedCerts increment.
CheckCertReturn(w) ==
    /\ Alive
    /\ wpc[w] = "deferred"
    /\ processedCerts' = processedCerts + 1
    /\ wpc' = [wpc EXCEPT ![w] = "range"]
    /\ UNCHANGED <<flagVars, totalVars, processedNames, results, entries,
                   mainpc, wg, te, res, stopWorkers, stopProg, ppc, handlerVars,
                   report, stderr, aggregating, probe>>

\* ----------------------------------------------------------- progress task
\* Variant of the stop case: the task returns on seeing a signal in the
\* channel, without receiving it.
ProgressStopPeeks ==
    /\ Alive
    /\ ppc = "select"
    /\ stopProg > 0
    /\ ppc' = "returned"
    /\ UNCHANGED <<flagVars, totalVars, countVars, entries, mainpc, wg,
                   workerVars, stopWorkers, stopProg, handlerVars, report, stderr, aggregating, probe>>

\* printProgress: case <-stop: return.
ProgressStop ==
    /\ Alive
    /\ ppc = "select"
    /\ stopProg > 0
    /\ stopProg' = stopProg - 1
    /\ ppc' = "returned"
    /\ UNCHANGED <<flagVars, totalVars, countVars, entries, mainpc, wg,
                   workerVars, stopWorkers, handlerVars, report, stderr, aggregating, probe>>

\* Variant of the select: the default case is taken although the stop
\* channel holds a signal.
ProgressDefaultIgnoresStop ==
    /\ Alive
    /\ ppc = "select"
    /\ ppc' = "print"
    /\ UNCHANGED <<flagVars, totalVars, countVars, entries, mainpc, wg,
                   workerVars, stopWorkers, stopProg, handlerVars, report, stderr, aggregating, probe>>

\* printProgress: default, taken only when the stop channel is empty: the
\* iteration is past its stop check, the counters are loaded and the line
\* is computed.
ProgressDefault ==
    /\ Alive
    /\ ppc = "select"
    /\ stopProg = 0
    /\ ppc' = "print"
    /\ UNCHANGED <<flagVars, totalVars, countVars, entries, mainpc, wg,
                   workerVars, stopWorkers, stopProg, handlerVars, report, stderr, aggregating, probe>>

\* printProgress: the progress line is written to stdout and the task
\* sleeps.
ProgressPrint ==
    /\ Alive
    /\ ppc = "print"
    /\ ppc' = "sleep"
    /\ UNCHANGED <<flagVars, totalVars, countVars, entries, mainpc, wg,
                   workerVars, stopWorkers, stopProg, handlerVars, report, stderr, aggregating, probe>>

\* time.Sleep returns, next iteration.
ProgressWake ==
    /\ Alive
    /\ ppc = "sleep"
    /\ ppc' = "select"
    /\ UNCHANGED <<flagVars, totalVars, countVars, entries, mainpc, wg,
                   workerVars, stopWorkers, stopProg, handlerVars, report, stderr, aggregating, probe>>

\* -------------------------------------------------------------- interrupt
\* The runtime delivers os.Interrupt to sigChan (registered by begin); the
\* delivery does not block, a signal that finds the buffer full is dropped.
Interrupt ==
    /\ Alive
    /\ hpc # "off"
    /\ sigChan = 0
    /\ sigChan' = 1
    /\ UNCHANGED <<flagVars, totalVars, countVars, entries, mainpc, wg,
                   workerVars, stopWorkers, stopProg, ppc, hpc, hi, report, stderr, aggregating, probe>>

\* <-sigChan
HandlerReceive ==
    /\ Alive
    /\ hpc = "wait"
    /\ sigChan > 0
    /\ sigChan' = sigChan - 1
    /\ hpc' = "stopProg"
    /\ UNCHANGED <<flagVars, totalVars, countVars, entries, mainpc, wg,
                   workerVars, stopWorkers, stopProg, ppc, hi, report, stderr, aggregating, probe>>

\* stopProg <- true in the interrupt goroutine; blocks while the buffer is full.
HandlerStopProg ==
    /\ Alive
    /\ hpc = "stopProg"
    /\ stopProg = 0
    /\ stopProg' = 1
    /\ hpc' = IF workers > 0 THEN "stopWorkers" ELSE "returned"
    /\ hi' = 1
    /\ UNCHANGED <<flagVars, totalVars, countVars, entries, mainpc, wg,
                   workerVars, stopWorkers, ppc, sigChan, report, stderr, aggregating, probe>>

\* Variant of the broadcast: the goroutine returns after the first worker.
HandlerStopWorkerFirstOnly ==
    /\ Alive
    /\ hpc = "stopWorkers"
    /\ stopWorkers[hi] = 0
    /\ stopWorkers' = [stopWorkers EXCEPT ![hi] = 1]
    /\ hi' = hi + 1
    /\ hpc' = "returned"
    /\ UNCHANGED <<flagVars, totalVars, countVars, entries, mainpc, wg,
                   workerVars, stopProg, ppc, sigChan, report, stderr, aggregating, probe>>

\* sw <- true for the next worker; the goroutine returns after the last one.
HandlerStopWorker ==
    /\ Alive
    /\ hpc = "stopWorkers"
    /\ stopWorkers[hi] = 0
    /\ stopWorkers' = [stopWorkers EXCEPT ![hi] = 1]
    /\ hi' = hi + 1
    /\ hpc' = IF hi < workers THEN "stopWorkers" ELSE "returned"
    /\ UNCHANGED <<flagVars, totalVars, countVars, entries, mainpc, wg,
                   workerVars, stopProg, ppc, sigChan, report, stderr, aggregating, probe>>

\* --------------------------------------------------------- specification
Next ==
    \/ LoadAndUpdate
    \/ Begin
    \/ Wait
    \/ MainStopProg
    \/ PrintStats
    \/ \E w \in Workers : WorkerRange(w)
    \/ \E w \in Workers : WorkerStop(w)
    \/ \E w \in Workers : WorkerDefault(w)
    \/ \E w \in Workers : CheckName(w)
    \/ \E w \in Workers : ProcessResults(w)
    \/ \E w \in Workers : CheckCertReturn(w)
    \/ ProgressStop
    \/ ProgressDefault
    \/ ProgressPrint
    \/ ProgressWake
    \/ Interrupt
    \/ HandlerReceive
    \/ HandlerStopProg
    \/ HandlerStopWorker

Spec == Init /\ [][Next]_vars

\* The goroutines make progress whenever they can: the Go scheduler runs
\* every runnable goroutine and every sleep ends.  Nothing is assumed about
\* the arrival of interrupts.
MainNext == LoadAndUpdate \/ Begin \/ Wait \/ MainStopProg \/ PrintStats

WorkerNext(w) ==
    \/ WorkerRange(w) \/ WorkerStop(w) \/ WorkerDefault(w)
    \/ CheckName(w) \/ ProcessResults(w) \/ CheckCertReturn(w)

ProgressNext == ProgressStop \/ ProgressDefault \/ ProgressPrint \/ ProgressWake

HandlerNext == HandlerReceive \/ HandlerStopProg \/ HandlerStopWorker

Fairness ==
    /\ WF_vars(MainNext)
    /\ \A w \in 1..MaxWorkers : WF_vars(w \in Workers /\ WorkerNext(w))
    /\ WF_vars(ProgressNext)
    /\ WF_vars(HandlerNext)

FairSpec == Spec /\ Fairness

\* ------------------------------------------ the scan over one kind of host
\* The scheduling of the goroutines does not depend on what the probes
\* return: the runs whose certificates name only hosts serving the expected
\* certificate, under the same fairness.
QueuedOver(hosts) ==
    \A i \in 1..Len(queued) :
        \A j \in 1..Len(queued[i]) : queued[i][j] \in hosts

LoadAndUpdateOneHost == LoadAndUpdate /\ QueuedOver({"used"})'

NextOneHost ==
    \/ LoadAndUpdateOneHost
    \/ Begin
    \/ Wait
    \/ MainStopProg
    \/ PrintStats
    \/ \E w \in Workers : WorkerRange(w)
    \/ \E w \in Workers : WorkerStop(w)
    \/ \E w \in Workers : WorkerDefault(w)
    \/ \E w \in Workers : CheckName(w)
    \/ \E w \in Workers : ProcessResults(w)
    \/ \E w \in Workers : CheckCertReturn(w)
    \/ ProgressStop
    \/ ProgressDefault
    \/ ProgressPrint
    \/ ProgressWake
    \/ Interrupt
    \/ HandlerReceive
    \/ HandlerStopProg
    \/ HandlerStopWorker

FairSpecOneHost == Init /\ [][NextOneHost]_vars /\ Fairness

\* ------------------------------------------- the classifier on its own
\* One dial result, taken from every combination of the attributes
\* checkName inspects, is classified by checkName and recorded by
\* processResults as the only name of a certificate.
InitClassify ==
    /\ probe \in AllProbes
    /\ workers = 1
    /\ debug = FALSE
    /\ dontPrintProgress = TRUE
    /\ totalCerts = 1 /\ processedCerts = 0
    /\ totalNames = 1 /\ processedNames = 0
    /\ results = ZeroResults
    /\ queued = <<>> /\ entries = <<>>
    /\ mainpc = "classify"
    /\ wg = 0
    /\ wpc = <<>> /\ te = <<>> /\ res = <<>>
    /\ stopWorkers = <<>>
    /\ stopProg = 0
    /\ ppc = "off"
    /\ sigChan = 0
    /\ hpc = "off" /\ hi = 0
    /\ report = <<>>
    /\ stderr = <<>>
    /\ aggregating = {}

Classify ==
    /\ mainpc = "classify"
    /\ results' = processResults(results, <<checkName(probe)>>)
    /\ processedNames' = processedNames + 1
    /\ processedCerts' = processedCerts + 1
    /\ mainpc' = "classified"
    /\ UNCHANGED <<flagVars, totalVars, entries, wg, workerVars, stopWorkers,
                   stopProg, ppc, handlerVars, report, stderr, aggregating, probe>>

NextClassify == Classify

SpecClassify == InitClassify /\ [][NextClassify]_vars

\* ================================================================ claims
\* Vocabulary of the claims, stated on the dial results and on the queue,
\* not on the flags of `result`.

\* The name presents the expected certificate after a successful handshake.
IsValid(p) == p.err = "nil" /\ p.handshakeComplete /\ p.fpMatch

ValidNames(cert) == Cardinality({i \in 1..Len(cert) : IsValid(Dial(cert[i]))})

RECURSIVE SumOver(_, _)
SumOver(S, f) ==
    IF S = {} THEN 0
    ELSE LET x == CHOOSE y \in S : TRUE IN f[x] + SumOver(S \ {x}, f)

InChannel(i) == \E k \in 1..Len(entries) : entries[k] = i

\* Queue positions whose certificate processResults has recorded.
Recorded ==
    {i \in 1..Len(queued) :
        /\ ~InChannel(i)
        /\ ~\E w \in Workers :
              te[w] = i /\ wpc[w] \in {"select", "checkCert", "stopped"}}

ExclusiveNameCounters ==
    {"NamesSkipped", "NamesUnavailable", "NamesTLSError",
     "NamesUsingIncompleteChain", "NamesUsingWrongCert",
     "NamesUsingExpiredCert", "NamesUsingSelfSignedCert",
     "NamesUsingMiscInvalidCert", "NamesCertNotUsed"}

NineSum(c) == SumOver(ExclusiveNameCounters, c)

BucketSum(c) == c.CertsUnused + c.CertsPartiallyUsed + c.CertsTotallyUsed

AllWorkersReturned == \A w \in Workers : wpc[w] \in {"drained", "stopped"}

\* The handler goroutine has taken an interrupt from sigChan.
HandlerFired == hpc \in {"stopProg", "stopWorkers", "returned"}

\* The statistics of a sequential pass over a certificate list.
RECURSIVE Sequential(_, _)
Sequential(c, cs) ==
    IF cs = <<>> THEN c
    ELSE LET cert == Head(cs)
             rs == [i \in 1..Len(cert) |-> checkName(Dial(cert[i]))]
         IN Sequential(processResults(c, rs), Tail(cs))

\* C2: with a fixed certificate set, fixed probe outcomes and no interrupt,
\* the final statistics (all counters, processedCerts, processedNames, and
\* the report made of them) are those of a sequential pass over the set,
\* for every pool size >= 1 and every interleaving of the workers.
C2_PoolSizeIndependent ==
    (mainpc = "done" /\ ~HandlerFired /\ workers >= 1) =>
        /\ results = Sequential(ZeroResults, queued)
        /\ processedCerts = Len(queued)
        /\ processedNames = SumNames(queued)
        /\ Len(report) = 1
        /\ report[1].count = results
        /\ report[1].processedCerts = processedCerts
        /\ report[1].processedNames = processedNames

\* Two workers have each processed a certificate of a two-certificate run
\* that ended without an interrupt.
C2_Witness ==
    /\ mainpc = "done" /\ ~HandlerFired /\ workers = 2
    /\ Len(queued) = 2 /\ queued[1] # queued[2]
    /\ wpc[1] = "drained" /\ wpc[2] = "drained"
    /\ te[1] # 0 /\ te[2] # 0 /\ te[1] # te[2]

\* C3: every recorded certificate has incremented exactly one of the three
\* summary buckets, once: the buckets sum to processedCerts plus the
\* certificates recorded whose deferred processedCerts increment is still to
\* run, and in the printed report they sum to processedCerts.
C3_BucketsSumToProcessed ==
    /\ BucketSum(results) =
          processedCerts + Cardinality({w \in Workers : wpc[w] = "deferred"})
    /\ \A k \in 1..Len(report) :
          BucketSum(report[k].count) = report[k].processedCerts

\* The report of a cancelled run: some certificates processed, not all.
C3_Witness ==
    /\ Len(report) = 1
    /\ HandlerFired
    /\ report[1].processedCerts >= 1
    /\ report[1].processedCerts < totalCerts

\* C4: when processResults runs for a certificate with total >= 1 names of
\* which `used` are valid: used = total increments CertsTotallyUsed,
\* 0 < used < total increments CertsPartiallyUsed, used = 0 increments
\* CertsUnused, no other bucket moves, and used <= total.
C4_BucketMatchesUsed ==
    [][\A w \in Workers :
         (wpc[w] = "checkCert" /\ wpc'[w] = "deferred"
            /\ Len(queued[te[w]]) >= 1) =>
           LET total == Len(queued[te[w]])
               used == ValidNames(queued[te[w]])
               want == IF used = total THEN "CertsTotallyUsed"
                       ELSE IF used = 0 THEN "CertsUnused"
                       ELSE "CertsPartiallyUsed"
           IN /\ used <= total
              /\ \A b \in CertCounters :
                   results'[b] = results[b] + (IF b = want THEN 1 ELSE 0)]_vars

\* The certificate [valid, refused] has been recorded as partially used.
C4_Witness ==
    \E w \in Workers :
        /\ wpc[w] = "deferred"
        /\ queued[te[w]] = <<"used", "refused">>
        /\ results.CertsPartiallyUsed = 1
        /\ results.NamesUnavailable = 1

\* C5: every name of a recorded certificate is filed under exactly one
\* outcome: the nine exclusive name counters plus the valid names of the
\* recorded certificates equal the number of their names, and in the
\* printed report the nine counters plus the valid names equal
\* processedNames.
C5_EveryNameOneOutcome ==
    LET names == [i \in 1..Len(queued) |-> Len(queued[i])]
        valid == [i \in 1..Len(queued) |-> ValidNames(queued[i])]
    IN /\ NineSum(results) + SumOver(Recorded, valid) = SumOver(Recorded, names)
       /\ \A k \in 1..Len(report) :
            NineSum(report[k].count) + SumOver(Recorded, valid)
              = report[k].processedNames

\* The report of a certificate with a skipped name and a valid name.
C5_Witness ==
    /\ Len(report) = 1
    /\ report[1].processedNames = 2
    /\ report[1].count.NamesSkipped = 1
    /\ report[1].count.NamesWithOCSPStapled = 1

\* C6: processedCerts <= totalCerts and processedNames <= totalNames in
\* every state, and neither processed counter ever decreases.
C6_ProcessedWithinTotals ==
    /\ [](processedCerts <= totalCerts /\ processedNames <= totalNames)
    /\ [][processedCerts' >= processedCerts
          /\ processedNames' >= processedNames]_vars

\* Both counters have reached their totals in a run of two certificates.
C6_Witness ==
    /\ totalCerts = 2 /\ totalNames >= 3
    /\ processedCerts = totalCerts /\ processedNames = totalNames

\* C7: a worker inside checkCert leaves it only through the deferred
\* processedCerts increment, which follows processResults, which follows
\* the probe of every name; it does not return from there, stop flag or not.
C7_NoAbandonedCertificate ==
    [][\A w \in Workers :
         /\ (wpc[w] \in {"checkCert", "deferred"} /\ wpc'[w] # wpc[w]) =>
               \/ /\ wpc[w] = "checkCert" /\ wpc'[w] = "deferred"
                  /\ Len(res[w]) = Len(queued[te[w]])
                  /\ BucketSum(results') = BucketSum(results) + 1
               \/ /\ wpc[w] = "deferred" /\ wpc'[w] = "range"
                  /\ processedCerts' = processedCerts + 1
         /\ (wpc[w] = "checkCert" /\ wpc'[w] = wpc[w] /\ res'[w] # res[w]) =>
               /\ Len(res[w]) < Len(queued[te[w]])
               /\ Len(res'[w]) = Len(res[w]) + 1]_vars

\* A worker has completed both names of a certificate with its stop flag
\* already in its channel.
C7_Witness ==
    \E w \in Workers :
        /\ wpc[w] = "deferred"
        /\ stopWorkers[w] = 1
        /\ Len(res[w]) = 2

\* C10: printStats runs at most once, once when main has returned, and
\* only after every worker has returned; the report then shows the final
\* counters, which account for every certificate counted in processedCerts,
\* and no counter differs from the report afterwards.
C10_ReportAfterWorkers ==
    /\ Len(report) <= 1
    /\ mainpc = "done" => Len(report) = 1
    /\ Len(report) = 1 =>
         /\ AllWorkersReturned /\ wg = 0
         /\ report[1].count = results
         /\ report[1].processedCerts = processedCerts
         /\ report[1].processedNames = processedNames
         /\ processedCerts = Cardinality(Recorded)
         /\ BucketSum(results) = processedCerts
         /\ processedNames =
              SumOver(Recorded, [i \in 1..Len(queued) |-> Len(queued[i])])

\* A report printed after two workers have both done work and returned.
C10_Witness ==
    /\ Len(report) = 1
    /\ workers = 2
    /\ report[1].processedCerts = 2
    /\ te[1] # te[2]

\* C1: in a scan with at least one worker, once the interrupt goroutine has
\* taken an interrupt, whatever the debug and progress toggles, every
\* worker returns, begin returns and the final report is printed.
C1_InterruptedRunReports ==
    (workers >= 1 /\ HandlerFired) ~>
        (AllWorkersReturned /\ mainpc = "done" /\ Len(report) = 1)

\* The outcome the priority chain of the claim gives a dial result.
ClaimedOutcome(p) ==
    IF p.err = "OpError" THEN
        IF p.timeout \/ p.temporary
           \/ (p.dnsErr /\ (p.dnsTimeout \/ p.dnsTemporary))
        THEN "NamesSkipped" ELSE "NamesUnavailable"
    ELSE IF p.err # "nil" /\ p.tlsText THEN "NamesTLSError"
    ELSE IF p.err = "UnknownAuthorityError" THEN "NamesUsingIncompleteChain"
    ELSE IF p.err = "HostnameError" THEN "NamesUsingWrongCert"
    ELSE IF p.err = "CertificateInvalidError" /\ p.reason = "Expired"
        THEN "NamesUsingExpiredCert"
    ELSE IF p.err = "CertificateInvalidError" /\ p.reason = "NotAuthorizedToSign"
        THEN "NamesUsingSelfSignedCert"
    ELSE IF p.err # "nil" THEN "NamesUsingMiscInvalidCert"
    ELSE IF p.fpMatch THEN "Valid"
    ELSE "NamesCertNotUsed"

\* C8: for every failed dial and every completed handshake, checkName and
\* processResults file the name under the outcome of the priority chain:
\* that exclusive counter alone is incremented, or none of the nine and the
\* name counts as used when the outcome is Valid.
C8_PriorityChain ==
    (mainpc = "classified" /\ (probe.err # "nil" \/ probe.handshakeComplete)) =>
        LET o == ClaimedOutcome(probe)
        IN /\ \A k \in ExclusiveNameCounters :
                results[k] = IF k = o THEN 1 ELSE 0
           /\ results.CertsTotallyUsed = (IF o = "Valid" THEN 1 ELSE 0)
           /\ results.CertsUnused = (IF o = "Valid" THEN 0 ELSE 1)

\* A name-mismatch error whose text also reads as a TLS error is filed as a
\* TLS error: the earlier link of the chain wins.
C8_Witness ==
    /\ mainpc = "classified"
    /\ probe.err = "HostnameError" /\ probe.tlsText
    /\ results.NamesTLSError = 1

\* C9: with a zero denominator every percentage of the report is 0.
C9_ZeroDenominatorPercentIsZero ==
    \A k \in 1..Len(report) :
        /\ report[k].processedNames = 0 =>
              \A c \in NameCounters : report[k].pct[c] = Float("finite", 0)
        /\ report[k].processedCerts = 0 =>
              \A c \in CertCounters : report[k].pct[c] = Float("finite", 0)

\* ---------------------------------------------------- cancellation, loading
\* The certificates a worker had dequeued when it took its stop flag.
Dropped == {te[w] : w \in {v \in Workers : wpc[v] = "stopped"}}

\* The queue positions that will never be processed once every worker has
\* returned: those still in the channel and the dropped ones.
Unprocessed == {entries[k] : k \in 1..Len(entries)} \cup Dropped

\* begin returns (its send on stopProg went through) after the interrupt
\* goroutine has taken an interrupt: the run is a cancelled run.
CancelledBeginReturns ==
    mainpc = "stopProg" /\ mainpc' = "printStats" /\ HandlerFired

C13_LoadFailureExits ==
    /\ [](mainpc = "exit1" =>
             /\ Len(stderr) = 1
             /\ stderr[1] \in LoadErrors \cup {"EmptyFiltered"}
             /\ Workers = {} /\ wg = 0
             /\ ppc = "off" /\ hpc = "off"
             /\ processedNames = 0 /\ processedCerts = 0
             /\ results = ZeroResults
             /\ report = <<>>)
    /\ [](stderr # <<>> => mainpc = "exit1")
    /\ [](mainpc \in {"begin", "wait", "stopProg", "printStats", "done"} =>
             (totalCerts >= 1 /\ Len(queued) = totalCerts))
    /\ [][mainpc # "exit1"]_vars

\* The download of the missing entries failed and main has exited.
C13_Witness ==
    /\ mainpc = "exit1"
    /\ stderr = <<"DownloadRange">>

\* ------------------------------------------------------- dequeue and probe
\* C14: the queue only loses its head, to exactly one worker, and no
\* position ever returns to it (the positions in the channel are increasing
\* and above everything a worker holds or held); no two workers hold the
\* same certificate; inside checkCert a result, once appended, stays as it
\* is; and the probes made so far are exactly one per name of the recorded
\* certificates plus one per result of the certificates in progress
\* whatever their outcome.
C14_DequeuedOnceProbedOnce ==
    /\ [](\A k \in 1..(Len(entries) - 1) : entries[k] < entries[k + 1])
    /\ [](\A w \in Workers : \A k \in 1..Len(entries) : te[w] < entries[k])
    /\ [](\A w, v \in Workers : (w # v /\ te[w] # 0) => te[w] # te[v])
    /\ [](processedNames =
            SumOver(Recorded, [i \in 1..Len(queued) |-> Len(queued[i])])
            + SumOver({w \in Workers : wpc[w] = "checkCert"},
                      [w \in Workers |-> Len(res[w])]))
    /\ [][mainpc # "loadAndUpdate" =>
            /\ entries' = entries \/ (entries # <<>> /\ entries' = Tail(entries))
            /\ \A w \in Workers :
                 /\ te'[w] # te[w] =>
                      /\ entries # <<>> /\ te'[w] = Head(entries)
                      /\ entries' = Tail(entries)
                      /\ \A v \in Workers \ {w} : te'[v] = te[v]
                 /\ (wpc[w] = "checkCert" /\ wpc'[w] = "checkCert") =>
                      /\ te'[w] = te[w]
                      /\ Len(res'[w]) >= Len(res[w])
                      /\ SubSeq(res'[w], 1, Len(res[w])) = res[w]]_vars

\* A two-worker scan of a certificate whose two names both time out has
\* ended: each name was probed once and filed as skipped.
C14_Witness ==
    /\ mainpc = "done"
    /\ workers = 2
    /\ queued = << <<"timeout", "timeout">> >>
    /\ processedNames = 2
    /\ results.NamesSkipped = 2

\* The dial fails in a way the claim calls transient: a timeout or a
\* temporary failure, of the connection or of the name resolution.
IsSkipped(p) ==
    /\ p.err = "OpError"
    /\ (p.timeout \/ p.temporary
        \/ (p.dnsErr /\ (p.dnsTimeout \/ p.dnsTemporary)))

SkippedNames(cert) ==
    Cardinality({i \in 1..Len(cert) : IsSkipped(Dial(cert[i]))})

\* C15: when processResults runs for a certificate, its used count is the
\* number of the certificate's Valid names (no other outcome adds to it),
\* NamesSkipped grows by one per skipped name, and a certificate with at
\* least one name, all skipped, changes nothing but NamesSkipped (once per
\* name) and CertsUnused (once).
C15_SkippedNeverUsed ==
    [][\A w \in Workers :
         (wpc[w] = "checkCert" /\ wpc'[w] = "deferred") =>
           LET cert == queued[te[w]]
           IN /\ tally(ZeroResults, res[w], 0).used = ValidNames(cert)
              /\ results'.NamesSkipped
                   = results.NamesSkipped + SkippedNames(cert)
              /\ (Len(cert) >= 1 /\ SkippedNames(cert) = Len(cert)) =>
                   results' = [results EXCEPT
                                 !.NamesSkipped = @ + Len(cert),
                                 !.CertsUnused = @ + 1]]_vars

\* A certificate whose two names both time out has been recorded.
C15_Witness ==
    \E w \in Workers :
        /\ wpc[w] = "deferred"
        /\ queued[te[w]] = <<"timeout", "timeout">>
        /\ results.NamesSkipped = 2
        /\ results.CertsUnused = 1
        /\ results.CertsTotallyUsed = 0

\* The elements of a set of numbers in increasing order.
RECURSIVE Ascending(_)
Ascending(S) ==
    IF S = {} THEN <<>>
    ELSE LET m == CHOOSE x \in S : \A y \in S : x <= y
         IN <<m>> \o Ascending(S \ {m})

\* C16: a probe changes processedNames (by one) and neither the counters
\* nor processedCerts; the counters change only in the processResults step
\* of a worker that holds a result for every name of its certificate; so
\* the counters are at all times those of the recorded certificates, and a
\* certificate some of whose names are still to probe has added nothing.
C16_RecordedAfterAllNamesProbed ==
    /\ [][processedNames' # processedNames =>
            /\ processedNames' = processedNames + 1
            /\ results' = results
            /\ processedCerts' = processedCerts]_vars
    /\ [][results' # results =>
            \E w \in Workers :
                /\ wpc[w] = "checkCert" /\ wpc'[w] = "deferred"
                /\ Len(res[w]) = Len(queued[te[w]])
                /\ processedNames' = processedNames]_vars
    /\ [](LET done == Ascending(Recorded)
          IN results = Sequential(ZeroResults,
                                  [k \in 1..Len(done) |-> queued[done[k]]]))

\* The first name of a two-name certificate has been probed (the host
\* refused the connection) and no counter has moved.
C16_Witness ==
    \E w \in Workers :
        /\ wpc[w] = "checkCert"
        /\ queued[te[w]] = <<"refused", "used">>
        /\ Len(res[w]) = 1
        /\ processedNames = 1
        /\ results = ZeroResults

\* C17: the results a worker holds are those of the first names of its
\* certificate, in list order; each probe is one step of one worker that
\* adds the result of the next name of the list, so a worker has at most
\* one probe under way and the workers together at most `workers`.
C17_NamesInListOrder ==
    /\ [](\A w \in Workers :
            wpc[w] \in {"checkCert", "deferred"} =>
              /\ Len(res[w]) <= Len(queued[te[w]])
              /\ \A i \in 1..Len(res[w]) :
                   res[w][i] = checkName(Dial(queued[te[w]][i])))
    /\ [](Cardinality({w \in Workers :
                         /\ wpc[w] = "checkCert"
                         /\ Len(res[w]) < Len(queued[te[w]])}) <= workers)
    /\ [][processedNames' # processedNames =>
            /\ processedNames' = processedNames + 1
            /\ \E w \in Workers :
                 /\ wpc[w] = "checkCert" /\ wpc'[w] = "checkCert"
                 /\ Len(res'[w]) = Len(res[w]) + 1
                 /\ SubSeq(res'[w], 1, Len(res[w])) = res[w]
                 /\ res'[w][Len(res'[w])]
                      = checkName(Dial(queued[te[w]][Len(res[w]) + 1]))
                 /\ \A v \in Workers \ {w} : res'[v] = res[v]]_vars

\* Two workers are each between the first and the second name of their
\* certificates.
C17_Witness ==
    /\ workers = 2
    /\ Workers = {1, 2}
    /\ wpc[1] = "checkCert" /\ wpc[2] = "checkCert"
    /\ queued[te[1]] = <<"used", "refused">>
    /\ Len(queued[te[2]]) = 2
    /\ Len(res[1]) = 1 /\ Len(res[2]) = 1
    /\ res[1][1].certUsed

\* C18: while a stop flag sits in a worker's stop channel, the flag stays
\* there until that worker takes it at its select; the worker does not
\* enter checkCert; at the select it can take the flag, and its only step
\* there is the return, which probes and records nothing; and a worker
\* that has returned takes no further step.
C18_StoppedWorkerStartsNothing ==
    /\ [](\A w \in Workers :
            (wpc[w] = "select" /\ stopWorkers[w] = 1) => ENABLED WorkerStop(w))
    /\ [][\A w \in Workers :
            /\ stopWorkers[w] = 1 =>
                 /\ stopWorkers'[w] = 1
                      \/ (wpc[w] = "select" /\ wpc'[w] = "stopped")
                 /\ ~(wpc[w] = "select" /\ wpc'[w] = "checkCert")
                 /\ (wpc[w] = "select" /\ wpc'[w] # wpc[w]) =>
                      /\ wpc'[w] = "stopped"
                      /\ wg' = wg - 1
                      /\ te'[w] = te[w] /\ entries' = entries
                      /\ processedNames' = processedNames
                      /\ processedCerts' = processedCerts
                      /\ results' = results
            /\ wpc[w] \in {"stopped", "drained"} =>
                 (wpc'[w] = wpc[w] /\ te'[w] = te[w] /\ res'[w] = res[w])]_vars

\* The only worker has processed the first certificate, dequeued the second
\* and returned on its stop flag without probing it.
C18_Witness ==
    /\ Workers = {1}
    /\ wpc[1] = "stopped"
    /\ te[1] = 2
    /\ processedCerts = 1
    /\ processedNames = Len(queued[1])
    /\ Len(queued[2]) >= 1

\* ------------------------------------------------------- flags of a result
OutcomeFlags ==
    {"skipped", "tlsError", "usingIncompleteChain", "usingWrongCert",
     "usingExpiredCert", "usingSelfSignedCert", "usingMiscInvalidCert"}

FlagsSet(r) == {f \in OutcomeFlags : r[f]}

FlagCounter(f) ==
    CASE f = "skipped"              -> "NamesSkipped"
      [] f = "tlsError"             -> "NamesTLSError"
      [] f = "usingIncompleteChain" -> "NamesUsingIncompleteChain"
      [] f = "usingWrongCert"       -> "NamesUsingWrongCert"
      [] f = "usingExpiredCert"     -> "NamesUsingExpiredCert"
      [] f = "usingSelfSignedCert"  -> "NamesUsingSelfSignedCert"
      [] f = "usingMiscInvalidCert" -> "NamesUsingMiscInvalidCert"

\* The order in which checkName sets the certificate flags, and the order
\* in which processResults tests them, reversed.
ProbeOrder ==
    <<"tlsError", "usingIncompleteChain", "usingWrongCert",
      "usingExpiredCert", "usingSelfSignedCert", "usingMiscInvalidCert">>

ReversedTestOrder ==
    <<"usingSelfSignedCert", "usingWrongCert", "usingIncompleteChain",
      "usingExpiredCert", "usingMiscInvalidCert", "tlsError">>

\* The loop body of processResults with its six certificate-flag tests made
\* in the given order.
nameCounterInOrder(r, order) ==
    IF r.skipped THEN "NamesSkipped"
    ELSE IF ~r.hostAvailable THEN "NamesUnavailable"
    ELSE IF \E k \in 1..Len(order) : r[order[k]]
    THEN LET first == CHOOSE k \in 1..Len(order) :
                        r[order[k]] /\ \A j \in 1..(k - 1) : ~r[order[j]]
         IN FlagCounter(order[first])
    ELSE IF ~r.certUsed THEN "NamesCertNotUsed"
    ELSE "used"

\* C19: the result checkName returns for any dial has at most one of the
\* seven outcome flags set, and certUsed only with hostAvailable and none of
\* them; so the counter processResults picks is the one of the flag that
\* is set, the same counter as with the flag tests in the probe's order or
\* in the reverse of its own, and exactly one bucket is incremented.
C19_FlagsExclusive ==
    mainpc = "classified" =>
        LET r == checkName(probe)
        IN /\ Cardinality(FlagsSet(r)) <= 1
           /\ r.certUsed => (r.hostAvailable /\ FlagsSet(r) = {})
           /\ \A f \in FlagsSet(r) :
                /\ nameCounter(r) = FlagCounter(f)
                /\ results[FlagCounter(f)] = 1
           /\ nameCounter(r) = nameCounterInOrder(r, ProbeOrder)
           /\ nameCounter(r) = nameCounterInOrder(r, ReversedTestOrder)
           /\ BucketSum(results) = 1
           /\ results.CertsTotallyUsed = (IF r.certUsed THEN 1 ELSE 0)

\* An expired certificate (its error text not a TLS one) is filed as
\* expired although processResults tests misc-invalid first.
C19_Witness ==
    /\ mainpc = "classified"
    /\ probe.err = "CertificateInvalidError" /\ probe.reason = "Expired"
    /\ ~probe.tlsText
    /\ results.NamesUsingExpiredCert = 1
    /\ results.NamesUsingMiscInvalidCert = 0

\* C20: NamesWithOCSPStapled is incremented exactly for a Valid name with a
\* stapled response and NamesServingSCTs exactly for a Valid name serving
\* SCTs, each whatever the other; a completed handshake that does not
\* present the expected certificate increments NamesCertNotUsed and no
\* other name counter, stapled response and SCTs or not; so each of the two
\* counters is at most the number of Valid names.
C20_StaplingOnlyForValid ==
    mainpc = "classified" =>
        LET valid == IF IsValid(probe) THEN 1 ELSE 0
        IN /\ results.NamesWithOCSPStapled
                = (IF IsValid(probe) /\ probe.ocsp THEN 1 ELSE 0)
           /\ results.NamesServingSCTs
                = (IF IsValid(probe) /\ probe.scts THEN 1 ELSE 0)
           /\ results.NamesWithOCSPStapled <= valid
           /\ results.NamesServingSCTs <= valid
           /\ (probe.err = "nil" /\ probe.handshakeComplete /\ ~probe.fpMatch) =>
                \A k \in NameCounters :
                    results[k] = (IF k = "NamesCertNotUsed" THEN 1 ELSE 0)

\* A host staples OCSP and serves SCTs for another certificate: only
\* NamesCertNotUsed has moved.
C20_Witness ==
    /\ mainpc = "classified"
    /\ probe.err = "nil" /\ probe.handshakeComplete /\ ~probe.fpMatch
    /\ probe.ocsp /\ probe.scts
    /\ results.NamesCertNotUsed = 1
    /\ results.NamesWithOCSPStapled = 0
    /\ results.NamesServingSCTs = 0

\* ------------------------------------------------- what a reader can observe
\* The workers inside checkCert: between its entry and the end of
\* processResults.
InFlight == {w \in Workers : wpc[w] = "checkCert"}

\* The names filed so far: the nine exclusive counters plus the Valid names
\* of the recorded certificates.
NamesFiled(c) ==
    NineSum(c)
      + SumOver(Recorded, [i \in 1..Len(queued) |-> ValidNames(queued[i])])

InFlightNames ==
    SumOver(InFlight, [w \in Workers |-> Len(queued[te[w]])])

\* C21: in every state processedNames is at least the names filed (the
\* nine exclusive counters plus the recorded Valid names) and exceeds them
\* by at most the names of the certificates in flight; the same holds at
\* every point of the loop of a processResults about to run, after any
\* number of its results have been filed.
C21_ProcessedNamesAhead ==
    /\ processedNames >= NamesFiled(results)
    /\ processedNames - NamesFiled(results) <= InFlightNames
    /\ \A w \in InFlight :
         Len(res[w]) = Len(queued[te[w]]) =>
           \A k \in 0..Len(res[w]) :
             LET t == tally(results, SubSeq(res[w], 1, k), 0)
                 filed == NamesFiled(t.c) + t.used
             IN /\ processedNames >= filed
                /\ processedNames - filed <= InFlightNames

\* Two workers have each probed both names of their certificates and
\* nothing is filed yet: processedNames is four ahead.
C21_Witness ==
    /\ Workers = {1, 2}
    /\ InFlight = {1, 2}
    /\ processedNames = 4
    /\ NamesFiled(results) = 0
    /\ InFlightNames = 4

\* C23: when processResults runs for a certificate with no names, it
\* increments CertsUnused and neither CertsPartiallyUsed nor
\* CertsTotallyUsed.
C23_NamelessIsUnused ==
    [][\A w \in Workers :
         (wpc[w] = "checkCert" /\ wpc'[w] = "deferred"
            /\ Len(queued[te[w]]) = 0) =>
           /\ results'.CertsUnused = results.CertsUnused + 1
           /\ results'.CertsPartiallyUsed = results.CertsPartiallyUsed
           /\ results'.CertsTotallyUsed = results.CertsTotallyUsed]_vars

\* C24: the filter never blocks on the queue (loadAndUpdate never stops
\* inside Map on a full channel), and when workers exist the queue has
\* been populated with every accepted certificate and closed: its content
\* only shrinks from there.
C24_PopulatingNeverBlocks ==
    /\ mainpc # "mapBlocked"
    /\ Workers # {} =>
         /\ totalCerts = Len(queued)
         /\ Len(entries) <= totalCerts

\* ------------------------------------------------------ uninterrupted runs
\* begin returns (its send on stopProg went through) and the interrupt
\* goroutine has taken no interrupt.
UninterruptedBeginReturns ==
    mainpc = "stopProg" /\ mainpc' = "printStats" /\ ~HandlerFired

\* Every queued certificate has been processed, once: each has left the
\* channel and has been recorded, none was dropped, and the counters equal
\* the totals.
AllProcessedOnce ==
    /\ entries = <<>>
    /\ Recorded = 1..Len(queued)
    /\ Dropped = {}
    /\ processedCerts = totalCerts
    /\ processedNames = totalNames
    /\ totalNames = SumNames(queued)

\* C25 as stated: when begin returns in a run with no interrupt, every
\* queued certificate has been processed exactly once, processedCerts =
\* totalCerts and processedNames = totalNames = the names of the queue.
C25_UninterruptedRunComplete ==
    [][UninterruptedBeginReturns => AllProcessedOnce]_vars

\* C25, amended: the same when the run has at least one worker.
C25_UninterruptedWorkersComplete ==
    [][(UninterruptedBeginReturns /\ workers >= 1) => AllProcessedOnce]_vars

\* begin has returned without an interrupt from a run of one worker over
\* two certificates of two names each.
C25_Witness ==
    /\ mainpc = "printStats" /\ ~HandlerFired /\ sigChan = 0
    /\ workers = 1
    /\ totalCerts = 2 /\ processedCerts = 2
    /\ totalNames = 4 /\ processedNames = 4

\* ------------------------------------------------ certificate conservation
\* The workers holding a dequeued certificate that is neither dropped nor
\* counted in processedCerts yet: at the select, inside checkCert, or
\* before its deferred increment.
InHand == {w \in Workers : wpc[w] \in {"select", "checkCert", "deferred"}}

\* The workers that returned on their stop flag, each dropping the
\* certificate it had dequeued.
StoppedWorkers == {w \in Workers : wpc[w] = "stopped"}

ProgressRunning == ppc \in {"select", "print", "sleep"}

\* C22: when the progress task runs, it returns only once the handler has
\* signalled it or main has (which main does after wg.Wait(), all workers
\* having exited); it does return, unless the process exits first with the
\* completion signal left in the channel; and neither sender of a stop
\* signal stays blocked: main's send after wg.Wait() goes through, and the
\* handler's send goes through unless the process exits first.
C22_ProgressTerminates ==
    /\ [](ppc = "returned" =>
            \/ hpc \in {"stopWorkers", "returned"}
            \/ mainpc \in {"printStats", "done"})
    /\ ProgressRunning ~> (ppc = "returned" \/ ~Alive)
    /\ (ppc # "off" /\ mainpc = "stopProg") ~> (mainpc = "printStats")
    /\ (ppc # "off" /\ hpc = "stopProg") ~> (hpc = "stopWorkers" \/ ~Alive)

\* Both stop signals were sent: the task returned on the first and the
\* second sits in the buffer, its sender (main) past the send.
C22_Witness ==
    /\ ppc = "returned"
    /\ hpc = "returned"
    /\ mainpc = "printStats"
    /\ stopProg = 1

\* C27: while a stop signal is pending in the channel of a running
\* progress task, the task starts no iteration (the default case is not
\* taken), the signal stays in the channel until the task receives it and
\* returns, so that the only line printed after the send is that of an
\* iteration that was past its stop check, and the task does return,
\* unless the process exits first.
C27_NoIterationAfterStop ==
    /\ [][stopProg > 0 => ~(ppc = "select" /\ ppc' = "print")]_vars
    /\ [][(stopProg > 0 /\ ProgressRunning) =>
            (stopProg' > 0 \/ ppc' = "returned")]_vars
    /\ [][(stopProg > 0 /\ ppc = "print") => ppc' \in {"print", "sleep"}]_vars
    /\ [][(stopProg > 0 /\ ppc = "sleep") => ppc' \in {"sleep", "select"}]_vars
    /\ [][(stopProg > 0 /\ ppc = "select") =>
            ppc' \in {"select", "returned"}]_vars
    /\ (stopProg > 0 /\ ProgressRunning) ~> (ppc = "returned" \/ ~Alive)

\* The handler's signal is pending and the task is about to print the line
\* of the iteration that had passed its stop check.
C27_Witness ==
    /\ ppc = "print"
    /\ stopProg = 1
    /\ hpc \in {"stopWorkers", "returned"}

\* ------------------------------------------- the earlier scanner variant
\* src/unnamed/part_000: names are fetched over HTTPS, four counters are
\* kept, there is no interrupt handling and no final report.

\* What t.client.Get returns for a host: an error, a response without TLS,
\* or a response with the peer certificates of the connection ("leaf" is
\* the certificate under test).
EarlyHosts == {"down", "plain", "leafOnly", "chain", "foreign"}

EarlyCoreHosts == {"down", "chain"}

EarlyGet(host) ==
    CASE host = "down"     -> [err |-> TRUE,  tls |-> FALSE, peers |-> <<>>]
      [] host = "plain"    -> [err |-> FALSE, tls |-> FALSE, peers |-> <<>>]
      [] host = "leafOnly" -> [err |-> FALSE, tls |-> TRUE,  peers |-> <<"leaf">>]
      [] host = "chain"    -> [err |-> FALSE, tls |-> TRUE,
                               peers |-> <<"leaf", "issuer">>]
      [] host = "foreign"  -> [err |-> FALSE, tls |-> TRUE,  peers |-> <<"other">>]

EarlyZeroResult ==
    [hostAvailable |-> FALSE, httpsEnabled |-> FALSE, certUsed |-> FALSE,
     properlySetup |-> FALSE]

\* checkName of the earlier variant: certUsed is set when a peer
\* certificate's fingerprint differs from the expected one.
earlyCheckName(resp) ==
    IF resp.err THEN EarlyZeroResult
    ELSE IF ~resp.tls THEN [EarlyZeroResult EXCEPT !.hostAvailable = TRUE]
    ELSE [EarlyZeroResult EXCEPT
            !.hostAvailable = TRUE,
            !.httpsEnabled = TRUE,
            !.certUsed = \E i \in 1..Len(resp.peers) : resp.peers[i] # "leaf"]

EarlyZeroCounters ==
    [namesUnavailable |-> 0, namesHTTPSDisabled |-> 0, namesCertNotUsed |-> 0,
     certsUnused |-> 0]

\* The loop of processResults of the earlier variant over the results rs,
\* from the counters c and the flag unused.
RECURSIVE earlyTally(_, _, _)
earlyTally(c, rs, unused) ==
    IF rs = <<>> THEN [c |-> c, unused |-> unused]
    ELSE LET r == Head(rs)
         IN IF ~r.hostAvailable
            THEN earlyTally([c EXCEPT !.namesUnavailable = @ + 1], Tail(rs), unused)
            ELSE IF ~r.httpsEnabled
            THEN earlyTally([c EXCEPT !.namesHTTPSDisabled = @ + 1], Tail(rs), unused)
            ELSE IF ~r.certUsed
            THEN earlyTally([c EXCEPT !.namesCertNotUsed = @ + 1], Tail(rs), unused)
            ELSE earlyTally(c, Tail(rs), FALSE)

earlyProcessResults(c, rs) ==
    LET t == earlyTally(c, rs, TRUE)
    IN IF t.unused THEN [t.c EXCEPT !.certsUnused = @ + 1] ELSE t.c

\* The certificates the filter of the earlier loadAndUpdate has queued.
EarlyFiltered ==
    SeqsUpTo(Certs(EarlyCoreHosts), MaxCerts) \cup SeqsUpTo(Certs(EarlyHosts), 1)

\* main of the earlier variant, up to t.begin(): loadAndUpdate has returned
\* the closed queue and the number of names, and the tester is built (its
\* 50 workers are scaled to the pool bound).
InitEarly ==
    /\ workers \in 1..MaxWorkers
    /\ debug = FALSE
    /\ dontPrintProgress = FALSE
    /\ queued \in EarlyFiltered
    /\ entries = [i \in 1..Len(queued) |-> i]
    /\ totalCerts = Len(queued) /\ processedCerts = 0
    /\ totalNames = SumNames(queued) /\ processedNames = 0
    /\ results = EarlyZeroCounters
    /\ mainpc = "begin"
    /\ wg = 0
    /\ wpc = <<>> /\ te = <<>> /\ res = <<>>
    /\ stopWorkers = <<>>
    /\ stopProg = 0
    /\ ppc = "off"
    /\ sigChan = 0
    /\ hpc = "off" /\ hi = 0
    /\ report = <<>>
    /\ stderr = <<>>
    /\ aggregating = {}
    /\ probe = "none"

\* What no action of the earlier variant touches.
earlyUnused ==
    <<flagVars, totalVars, stopWorkers, handlerVars, report, stderr, probe>>

\* begin up to wg.Wait(): the progress task and the workers are started.
EarlyBegin ==
    /\ mainpc = "begin"
    /\ mainpc' = "wait"
    /\ ppc' = "select"
    /\ wg' = workers
    /\ wpc' = [w \in 1..workers |-> "range"]
    /\ te' = [w \in 1..workers |-> 0]
    /\ res' = [w \in 1..workers |-> <<>>]
    /\ UNCHANGED <<earlyUnused, countVars, entries, stopProg, aggregating>>

\* wg.Wait() returns.
EarlyWait ==
    /\ mainpc = "wait"
    /\ wg = 0
    /\ mainpc' = "stopProg"
    /\ UNCHANGED <<earlyUnused, countVars, entries, wg, workerVars, stopProg,
                   ppc, aggregating>>

\* stop <- true (buffer of one, a single sender), and begin returns.
EarlyStopProg ==
    /\ mainpc = "stopProg"
    /\ stopProg = 0
    /\ stopProg' = 1
    /\ mainpc' = "beginReturned"
    /\ UNCHANGED <<earlyUnused, countVars, entries, wg, workerVars, ppc,
                   aggregating>>

\* main returns after t.begin(): the process exits.
EarlyMainReturn ==
    /\ mainpc = "beginReturned"
    /\ mainpc' = "done"
    /\ UNCHANGED <<earlyUnused, countVars, entries, wg, workerVars, stopProg,
                   ppc, aggregating>>

\* for te := range t.entries: the next certificate and the entry of
\* checkCert, or the end of the loop and wg.Done().
EarlyWorkerRange(w) ==
    /\ Alive
    /\ w \in Workers
    /\ wpc[w] = "range"
    /\ IF entries # <<>>
       THEN /\ te' = [te EXCEPT ![w] = Head(entries)]
            /\ entries' = Tail(entries)
            /\ res' = [res EXCEPT ![w] = <<>>]
            /\ wpc' = [wpc EXCEPT ![w] = "checkCert"]
            /\ UNCHANGED wg
       ELSE /\ wpc' = [wpc EXCEPT ![w] = "drained"]
            /\ wg' = wg - 1
            /\ UNCHANGED <<te, entries, res>>
    /\ UNCHANGED <<earlyUnused, countVars, mainpc, stopProg, ppc, aggregating>>

\* checkCert's loop: the next name is fetched, checkName's deferred
\* increment of processedNames runs, the result is appended.
EarlyCheckName(w) ==
    /\ Alive
    /\ w \in Workers
    /\ wpc[w] = "checkCert"
    /\ Len(res[w]) < Len(queued[te[w]])
    /\ LET name == queued[te[w]][Len(res[w]) + 1]
       IN res' = [res EXCEPT ![w] = Append(@, earlyCheckName(EarlyGet(name)))]
    /\ processedNames' = processedNames + 1
    /\ UNCHANGED <<earlyUnused, processedCerts, results, entries, mainpc, wg,
                   wpc, te, stopProg, ppc, aggregating>>

\* go t.processResults(results): the aggregation is started as a goroutine
\* of its own, nothing waits for it.
EarlyGoProcessResults(w) ==
    /\ Alive
    /\ w \in Workers
    /\ wpc[w] = "checkCert"
    /\ Len(res[w]) = Len(queued[te[w]])
    /\ aggregating' = aggregating \cup {[cert |-> te[w], rs |-> res[w]]}
    /\ wpc' = [wpc EXCEPT ![w] = "deferred"]
    /\ UNCHANGED <<earlyUnused, countVars, entries, mainpc, wg, te, res,
                   stopProg, ppc>>

\* checkCert returns: the deferred increment of processedCerts.
EarlyCheckCertReturn(w) ==
    /\ Alive
    /\ w \in Workers
    /\ wpc[w] = "deferred"
    /\ processedCerts' = processedCerts + 1
    /\ wpc' = [wpc EXCEPT ![w] = "range"]
    /\ UNCHANGED <<earlyUnused, processedNames, results, entries, mainpc, wg,
                   te, res, stopProg, ppc, aggregating>>

\* A processResults goroutine runs: its results are added to the counters.
EarlyProcessResults ==
    /\ Alive
    /\ \E g \in aggregating :
         /\ results' = earlyProcessResults(results, g.rs)
         /\ aggregating' = aggregating \ {g}
    /\ UNCHANGED <<earlyUnused, processedCerts, processedNames, entries,
                   mainpc, wg, workerVars, stopProg, ppc>>

\* printProgress of the earlier variant: case <-stop: return.
EarlyProgressStop ==
    /\ Alive
    /\ ppc = "select"
    /\ stopProg > 0
    /\ stopProg' = stopProg - 1
    /\ ppc' = "returned"
    /\ UNCHANGED <<earlyUnused, countVars, entries, mainpc, wg, workerVars,
                   aggregating>>

\* printProgress of the earlier variant: default, the line is computed.
EarlyProgressDefault ==
    /\ Alive
    /\ ppc = "select"
    /\ stopProg = 0
    /\ ppc' = "print"
    /\ UNCHANGED <<earlyUnused, countVars, entries, mainpc, wg, workerVars,
                   stopProg, aggregating>>

\* printProgress of the earlier variant: the line is printed, the task
\* sleeps.
EarlyProgressPrint ==
    /\ Alive
    /\ ppc = "print"
    /\ ppc' = "sleep"
    /\ UNCHANGED <<earlyUnused, countVars, entries, mainpc, wg, workerVars,
                   stopProg, aggregating>>

\* time.Sleep(time.Second) returns.
EarlyProgressWake ==
    /\ Alive
    /\ ppc = "sleep"
    /\ ppc' = "select"
    /\ UNCHANGED <<earlyUnused, countVars, entries, mainpc, wg, workerVars,
                   stopProg, aggregating>>

NextEarly ==
    \/ EarlyBegin
    \/ EarlyWait
    \/ EarlyStopProg
    \/ EarlyMainReturn
    \/ \E w \in 1..MaxWorkers : EarlyWorkerRange(w)
    \/ \E w \in 1..MaxWorkers : EarlyCheckName(w)
    \/ \E w \in 1..MaxWorkers : EarlyGoProcessResults(w)
    \/ \E w \in 1..MaxWorkers : EarlyCheckCertReturn(w)
    \/ EarlyProcessResults
    \/ EarlyProgressStop
    \/ EarlyProgressDefault
    \/ EarlyProgressPrint
    \/ EarlyProgressWake

SpecEarly == InitEarly /\ [][NextEarly]_vars

\* The statistics of a sequential pass of the earlier variant over a
\* certificate list.
RECURSIVE EarlySequential(_, _)
EarlySequential(c, cs) ==
    IF cs = <<>> THEN c
    ELSE LET cert == Head(cs)
             rs == [i \in 1..Len(cert) |-> earlyCheckName(EarlyGet(cert[i]))]
         IN EarlySequential(earlyProcessResults(c, rs), Tail(cs))

\* The queue positions counted in processedCerts: dequeued, and checkCert
\* has returned for them.
EarlyCounted ==
    {i \in 1..Len(queued) :
        /\ ~InChannel(i)
        /\ ~\E w \in Workers :
              te[w] = i /\ wpc[w] \in {"checkCert", "deferred"}}

\* C28: in the earlier variant, once begin has returned, no processResults
\* goroutine of a certificate counted in processedCerts is still to run,
\* and the four counters hold the aggregate of every queued certificate.
C28_AggregatedWhenBeginReturns ==
    mainpc \in {"beginReturned", "done"} =>
        /\ Cardinality(EarlyCounted) = processedCerts
        /\ \A g \in aggregating : g.cert \notin EarlyCounted
        /\ results = EarlySequential(EarlyZeroCounters, queued)

====
